---- MODULE Spec2Model ----
(***************************************************************************)
(* A model of process.py: the packed-binary frame decoder                  *)
(* (unpack_drawing / unpack_drawings), the QuickDrawing record with its    *)
(* memoized strokes view and get_image, and the save_png batch loop run    *)
(* by a pool of worker processes.                                          *)
(*                                                                         *)
(* Representation choices:                                                 *)
(*  - a byte is a number in 0..255, a bytes object a sequence of bytes;    *)
(*  - the 64-bit key_id and the 32-bit timestamp are kept as base-256      *)
(*    numerals, most significant digit first (TLC's integers are 32-bit);  *)
(*    the 16-bit counts and the 8-bit values are integers;                 *)
(*  - Python's None is the empty sequence <<>> and a value v that may be   *)
(*    None is <<v>>;                                                       *)
(*  - a dict is a record, d[k] on a missing key gives KeyError.            *)
(***************************************************************************)
EXTENDS Integers, Sequences, FiniteSets, TLC

VARIABLES
    data,       \* the bytes of the file opened by unpack_drawings
    frames,     \* the frames the file was written from (input, never changed)
    pos,        \* the file cursor: bytes read so far
    consumed,   \* history: every byte returned by file_handle.read, in call order
    pc,         \* where the generator stands
    loc,        \* the locals of the running unpack_drawing call
    out,        \* the records yielded so far
    ends,       \* history: the cursor at each yield
    qt,         \* the consumer's QuickDrawing of the last yielded record, or None
    ret,        \* what the last call on qt returned or raised
    fs,         \* the directories that exist
    pngs,       \* class directory -> number of images 0.png .. n-1.png in it
    pool        \* worker -> the state of its save_png call

vars == <<data, frames, pos, consumed, pc, loc, out, ends, qt, ret, fs, pngs, pool>>

decoderVars == <<data, frames, pos, consumed, pc, loc, out, ends>>
batchVars == <<fs, pngs, pool>>

-----------------------------------------------------------------------------
(* Bounds of the model.                                                    *)

MaxFrames == 2
MaxStrokes == 2
MaxPoints == 2

-----------------------------------------------------------------------------
(* Generic helpers.                                                        *)

Min(a, b) == IF a <= b THEN a ELSE b

Max(a, b) == IF a >= b THEN a ELSE b

RECURSIVE SumSeq(_)
SumSeq(s) == IF s = <<>> THEN 0 ELSE Head(s) + SumSeq(Tail(s))

RECURSIVE Flatten(_)
Flatten(ss) == IF ss = <<>> THEN <<>> ELSE Head(ss) \o Flatten(Tail(ss))

Reverse(s) == [i \in 1..Len(s) |-> s[Len(s) + 1 - i]]

SeqsUpTo(S, n) == UNION {[1..k -> S] : k \in 0..n}

None == <<>>

Some(v) == <<v>>

-----------------------------------------------------------------------------
(* struct.unpack of the formats the decoder uses (native byte order of a   *)
(* little-endian machine, one value per call, so no padding).              *)

\* the counts read as 'I'
SizeHAsI == 2 + 2

\* struct.calcsize of each format
SizeQ == 8
SizeCountry == 2
SizeRecognized == 1
SizeI == 4
SizeH == 2

\* the bytes taken most significant first
UnpackUnsignedBigEndian(b) == b

\* unpack('Q', b) and unpack('I', b): least significant byte first in the file
UnpackUnsigned(b) == Reverse(b)

\* unpack('2s', b): the bytes as they are
UnpackBytes(b) == b

\* unpack('b', b): a signed byte
UnpackSignedByte(b) == IF b[1] < 128 THEN b[1] ELSE b[1] - 256

\* unpack('H', b): unsigned 16 bits
UnpackH(b) == b[1] + 256 * b[2]

\* unpack(str(n) + 'B', b): a tuple of n unsigned bytes
UnpackB(b) == b

\* file_handle.read(k): up to k bytes from the cursor, fewer at end of file
FRead(k) == SubSeq(data, pos + 1, Min(pos + k, Len(data)))

\* struct.unpack raises struct.error when the buffer is not exactly the format's size
UnpackExc(k, b) == IF Len(b) = k THEN "none" ELSE "struct.error"

\* a handler for another exception
CaughtEOFError(exc) == exc = "EOFError"

\* unpack_drawings: "except struct.error: break"
Caught(exc) == exc = "struct.error"

-----------------------------------------------------------------------------
(* The input files: streams written from sample frames, cut at any byte.   *)
(* Every byte sequence is a prefix of a well-formed stream, so cutting     *)
(* well-formed streams gives the empty file, the files that end on a frame *)
(* boundary, the files truncated inside a field and the files with a few   *)
(* trailing bytes.                                                         *)

PackUnsigned(num) == Reverse(num)

PackSignedByte(v) == <<(v + 256) % 256>>

PackH(n) == <<n % 256, n \div 256>>

PackStroke(st) == PackH(Len(st[1])) \o st[1] \o st[2]

PackFrame(f) ==
    PackUnsigned(f.key_id) \o f.country_code \o PackSignedByte(f.recognized)
        \o PackUnsigned(f.timestamp) \o PackH(Len(f.image))
        \o Flatten([s \in 1..Len(f.image) |-> PackStroke(f.image[s])])

PackStream(fr) == Flatten([k \in 1..Len(fr) |-> PackFrame(fr[k])])

XCoord(k, s, j) == (40 * k + 10 * s + j) % 256

YCoord(k, s, j) == (200 + 7 * k + 3 * s + 50 * j) % 256

\* the k-th frame of a sample stream; shape is its strokes' point counts
SampleFrame(k, shape) ==
    [key_id |-> <<0, 0, 0, 1, 0, 0, 2, k>>,
     country_code |-> IF k % 2 = 1 THEN <<85, 83>> ELSE <<67, 78>>,
     recognized |-> k % 2,
     timestamp |-> <<90, 0, 1, k>>,
     image |-> [s \in 1..Len(shape) |->
                 << [j \in 1..shape[s] |-> XCoord(k, s, j)],
                    [j \in 1..shape[s] |-> YCoord(k, s, j)] >>]]

Shapes == {sh \in SeqsUpTo(0..MaxPoints, MaxStrokes) : SumSeq(sh) <= MaxPoints}

StreamShapes ==
    {ss \in SeqsUpTo(Shapes, MaxFrames) :
        /\ SumSeq([k \in 1..Len(ss) |-> Len(ss[k])]) <= MaxStrokes
        /\ SumSeq([k \in 1..Len(ss) |-> SumSeq(ss[k])]) <= MaxPoints}

SampleStream(ss) == [k \in 1..Len(ss) |-> SampleFrame(k, ss[k])]

\* the frames of fr that start before byte n
RECURSIVE StartedFrames(_, _)
StartedFrames(fr, n) ==
    IF fr = <<>> \/ n <= 0 THEN <<>>
    ELSE <<Head(fr)>> \o StartedFrames(Tail(fr), n - Len(PackFrame(Head(fr))))

-----------------------------------------------------------------------------
(* unpack_drawing and unpack_drawings, one action per read.                *)

NoLocals ==
    [key_id |-> <<>>, country_code |-> <<>>, recognized |-> 0, timestamp |-> <<>>,
     n_strokes |-> 0, i |-> 0, image |-> <<>>, n_points |-> 0, x |-> <<>>]

NoCall == [call |-> "none", arg |-> <<>>, exc |-> "none", val |-> 0]

\* the cursor moves over the bytes read returned
Advance(b) ==
    /\ pos' = pos + Len(b)
    /\ consumed' = consumed \o b

\* an exception leaves unpack_drawing: the generator's handler ends the stream
\* on struct.error, anything else reaches the consumer
Raise(exc) ==
    /\ pc' = IF Caught(exc) THEN "StreamEnded" ELSE "Raised"
    /\ loc' = NoLocals

\* QuickDrawing.__init__
QuickDrawing(name, drawing_data) ==
    [_name |-> name, _drawing_data |-> drawing_data, _strokes |-> None, _image |-> None]

\* the dict unpack_drawing returns
Drawing ==
    [key_id |-> loc.key_id,
     country_code |-> loc.country_code,
     recognized |-> loc.recognized,
     timestamp |-> loc.timestamp,
     image |-> loc.image]

\* key_id, = unpack('Q', file_handle.read(8)), on the first call or on resumption
\* after a yield (the consumer has then let go of the previous record)
ReadKeyId ==
    /\ pc = "AwaitingFrame"
    /\ LET b == FRead(SizeQ) IN
        /\ Advance(b)
        /\ IF UnpackExc(SizeQ, b) = "none"
           THEN /\ pc' = "ReadCountry"
                /\ loc' = [loc EXCEPT !.key_id = UnpackUnsigned(b)]
           ELSE Raise(UnpackExc(SizeQ, b))
    /\ qt' = None
    /\ ret' = NoCall
    /\ UNCHANGED <<data, frames, out, ends, batchVars>>

ReadCountry ==
    /\ pc = "ReadCountry"
    /\ LET b == FRead(SizeCountry) IN
        /\ Advance(b)
        /\ IF UnpackExc(SizeCountry, b) = "none"
           THEN /\ pc' = "ReadRecognized"
                /\ loc' = [loc EXCEPT !.country_code = UnpackBytes(b)]
           ELSE Raise(UnpackExc(SizeCountry, b))
    /\ UNCHANGED <<data, frames, out, ends, qt, ret, batchVars>>

ReadRecognized ==
    /\ pc = "ReadRecognized"
    /\ LET b == FRead(SizeRecognized) IN
        /\ Advance(b)
        /\ IF UnpackExc(SizeRecognized, b) = "none"
           THEN /\ pc' = "ReadTimestamp"
                /\ loc' = [loc EXCEPT !.recognized = UnpackSignedByte(b)]
           ELSE Raise(UnpackExc(SizeRecognized, b))
    /\ UNCHANGED <<data, frames, out, ends, qt, ret, batchVars>>

ReadTimestamp ==
    /\ pc = "ReadTimestamp"
    /\ LET b == FRead(SizeI) IN
        /\ Advance(b)
        /\ IF UnpackExc(SizeI, b) = "none"
           THEN /\ pc' = "ReadNStrokes"
                /\ loc' = [loc EXCEPT !.timestamp = UnpackUnsigned(b)]
           ELSE Raise(UnpackExc(SizeI, b))
    /\ UNCHANGED <<data, frames, out, ends, qt, ret, batchVars>>

\* n_strokes, = unpack('H', ...); image = []; the loop starts at i = 0
ReadNStrokes ==
    /\ pc = "ReadNStrokes"
    /\ LET b == FRead(SizeH) IN
        /\ Advance(b)
        /\ IF UnpackExc(SizeH, b) = "none"
           THEN /\ pc' = "Stroke"
                /\ loc' = [loc EXCEPT !.n_strokes = UnpackH(b), !.i = 0, !.image = <<>>]
           ELSE Raise(UnpackExc(SizeH, b))
    /\ UNCHANGED <<data, frames, out, ends, qt, ret, batchVars>>

\* for i in range(n_strokes): n_points, = unpack('H', file_handle.read(2))
ReadNPoints ==
    /\ pc = "Stroke"
    /\ loc.i < loc.n_strokes
    /\ LET b == FRead(SizeH) IN
        /\ Advance(b)
        /\ IF UnpackExc(SizeH, b) = "none"
           THEN /\ pc' = "ReadX"
                /\ loc' = [loc EXCEPT !.n_points = UnpackH(b)]
           ELSE Raise(UnpackExc(SizeH, b))
    /\ UNCHANGED <<data, frames, out, ends, qt, ret, batchVars>>

\* x = unpack(fmt, file_handle.read(n_points))
ReadX ==
    /\ pc = "ReadX"
    /\ LET b == FRead(loc.n_points) IN
        /\ Advance(b)
        /\ IF UnpackExc(loc.n_points, b) = "none"
           THEN /\ pc' = "ReadY"
                /\ loc' = [loc EXCEPT !.x = UnpackB(b)]
           ELSE Raise(UnpackExc(loc.n_points, b))
    /\ UNCHANGED <<data, frames, out, ends, qt, ret, batchVars>>

\* y = unpack(fmt, file_handle.read(n_points)); image.append((x, y))
ReadY ==
    /\ pc = "ReadY"
    /\ LET b == FRead(loc.n_points) IN
        /\ Advance(b)
        /\ IF UnpackExc(loc.n_points, b) = "none"
           THEN /\ pc' = "Stroke"
                /\ loc' = [loc EXCEPT !.image = Append(@, <<loc.x, UnpackB(b)>>),
                                      !.i = @ + 1, !.x = <<>>, !.n_points = 0]
           ELSE Raise(UnpackExc(loc.n_points, b))
    /\ UNCHANGED <<data, frames, out, ends, qt, ret, batchVars>>

\* the loop is over: unpack_drawing returns the dict, unpack_drawings yields it and
\* the consumer wraps it (qt = QuickDrawing(class_name, drawing))
Yield ==
    /\ pc = "Stroke"
    /\ loc.i >= loc.n_strokes
    /\ out' = Append(out, Drawing)
    /\ ends' = Append(ends, pos)
    /\ qt' = Some(QuickDrawing("airplane", Drawing))
    /\ ret' = NoCall
    /\ pc' = "AwaitingFrame"
    /\ loc' = NoLocals
    /\ UNCHANGED <<data, frames, pos, consumed, batchVars>>

-----------------------------------------------------------------------------
(* QuickDrawing: the accessors, the memoized strokes view and get_image.   *)

CanvasSize == 255
DefaultStrokeWidth == 2
Black == <<0, 0, 0>>
White == <<255, 255, 255>>

\* d[k] on a dict
GetItem(d, k) ==
    IF k \in DOMAIN d THEN [exc |-> "none", val |-> d[k]]
    ELSE [exc |-> "KeyError", val |-> k]

\* bytes.decode("utf-8") of a two-byte value: two one-byte characters, one two-byte
\* character, or UnicodeDecodeError; the text is tagged "str"
Utf8Decode(b) ==
    IF \A n \in 1..Len(b) : b[n] < 128
    THEN [exc |-> "none", val |-> <<"str", b>>]
    ELSE IF Len(b) = 2 /\ b[1] \in 194..223 /\ b[2] \in 128..191
    THEN [exc |-> "none", val |-> <<"str", <<(b[1] - 192) * 64 + (b[2] - 128)>> >>]
    ELSE [exc |-> "UnicodeDecodeError", val |-> b]

key_id(q) == GetItem(q._drawing_data, "key_id")

countrycode(q) ==
    LET g == GetItem(q._drawing_data, "countrycode")
    IN  IF g.exc = "none" THEN Utf8Decode(g.val) ELSE g

recognized(q) ==
    LET g == GetItem(q._drawing_data, "recognized")
    IN  IF g.exc = "none" THEN [exc |-> "none", val |-> (g.val # 0)] ELSE g

timestamp(q) == GetItem(q._drawing_data, "timestamp")

no_of_strokes(q) == GetItem(q._drawing_data, "n_strokes")

image_data(q) == GetItem(q._drawing_data, "image")

\* the pairs as (y, x)
PointsSwapped(stroke) == [p \in 1..Len(stroke[1]) |-> <<stroke[2][p], stroke[1][p]>>]

\* the inner loop of strokes: the (x, y) pairs of one raw stroke
Points(stroke) == [p \in 1..Len(stroke[1]) |-> <<stroke[1][p], stroke[2][p]>>]

\* the strokes whose turn comes before the loop stops: all of them, or those before
\* the first one whose x's and y's differ in number
Appended(image) ==
    LET bad == {s \in 1..Len(image) : Len(image[s][1]) # Len(image[s][2])}
        n == IF bad = {} THEN Len(image)
             ELSE (CHOOSE s \in bad : \A t \in bad : s <= t) - 1
    IN  [s \in 1..n |-> Points(image[s])]

\* the strokes property: the object after the call, and what the call gives.
\* self._strokes = [] is assigned before the loop, and the loop appends to it.
strokes(q) ==
    IF q._strokes # None
    THEN [obj |-> q, exc |-> "none", val |-> q._strokes[1]]
    ELSE LET g == image_data(q) IN
         IF g.exc # "none"
         THEN [obj |-> [q EXCEPT !._strokes = Some(<<>>)], exc |-> g.exc, val |-> g.val]
         ELSE LET done == Appended(g.val)
                  after == [q EXCEPT !._strokes = Some(done)]
              IN  IF Len(done) = Len(g.val)
                  THEN [obj |-> after, exc |-> "none", val |-> done]
                  ELSE [obj |-> after, exc |-> "Exception", val |-> <<>>]

\* Image.new("RGB", (255,255), color=bg_color): every pixel has the colour;
\* nothing drawn yet
NewImage(bg_color) ==
    [size |-> <<CanvasSize, CanvasSize>>, color |-> bg_color, lines |-> <<>>]

\* every stroke's points handed to a single line call
DrawStrokesJoined(image, strks, stroke_color, stroke_width) ==
    [image EXCEPT !.lines =
        << [xy |-> Flatten(strks), fill |-> stroke_color, width |-> stroke_width] >>]

\* the loop of get_image: one image_draw.line call per stroke, in order
DrawStrokes(image, strks, stroke_color, stroke_width) ==
    [image EXCEPT !.lines =
        [s \in 1..Len(strks) |->
            [xy |-> strks[s], fill |-> stroke_color, width |-> stroke_width]]]

get_image(q, stroke_color, stroke_width, bg_color) ==
    LET image == NewImage(bg_color)
        st == strokes(q)
    IN  IF st.exc # "none" THEN st
        ELSE [obj |-> st.obj, exc |-> "none",
              val |-> DrawStrokes(image, st.val, stroke_color, stroke_width)]

\* a call of a read-only accessor on the consumer's drawing
Call(name, r) ==
    /\ qt # None
    /\ ret' = [call |-> name, arg |-> <<>>, exc |-> r.exc, val |-> r.val]
    /\ UNCHANGED <<qt, decoderVars, batchVars>>

GetKeyId == qt # None /\ Call("key_id", key_id(qt[1]))

GetCountrycode == qt # None /\ Call("countrycode", countrycode(qt[1]))

GetRecognized == qt # None /\ Call("recognized", recognized(qt[1]))

GetTimestamp == qt # None /\ Call("timestamp", timestamp(qt[1]))

GetNoOfStrokes == qt # None /\ Call("no_of_strokes", no_of_strokes(qt[1]))

GetImageData == qt # None /\ Call("image_data", image_data(qt[1]))

GetStrokes ==
    /\ qt # None
    /\ LET r == strokes(qt[1]) IN
        /\ qt' = Some(r.obj)
        /\ ret' = [call |-> "strokes", arg |-> <<>>, exc |-> r.exc, val |-> r.val]
    /\ UNCHANGED <<decoderVars, batchVars>>

GetImage ==
    /\ qt # None
    /\ \E bg \in {White, Black} :
        LET r == get_image(qt[1], Black, DefaultStrokeWidth, bg) IN
        /\ qt' = Some(r.obj)
        /\ ret' = [call |-> "get_image", arg |-> bg, exc |-> r.exc, val |-> r.val]
    /\ UNCHANGED <<decoderVars, batchVars>>

-----------------------------------------------------------------------------
(* The decoder run over an input file, with a consumer that inspects each  *)
(* yielded record before asking for the next.                              *)

NoBatch ==
    /\ fs = {}
    /\ pngs = <<>>
    /\ pool = <<>>

Init ==
    /\ \E ss \in StreamShapes :
        \E cut \in 0..Len(PackStream(SampleStream(ss))) :
            /\ data = SubSeq(PackStream(SampleStream(ss)), 1, cut)
            /\ frames = StartedFrames(SampleStream(ss), cut)
    /\ pos = 0
    /\ consumed = <<>>
    /\ pc = "AwaitingFrame"
    /\ loc = NoLocals
    /\ out = <<>>
    /\ ends = <<>>
    /\ qt = None
    /\ ret = NoCall
    /\ NoBatch

Next ==
    \/ ReadKeyId
    \/ ReadCountry
    \/ ReadRecognized
    \/ ReadTimestamp
    \/ ReadNStrokes
    \/ ReadNPoints
    \/ ReadX
    \/ ReadY
    \/ Yield
    \/ GetKeyId
    \/ GetCountrycode
    \/ GetRecognized
    \/ GetTimestamp
    \/ GetNoOfStrokes
    \/ GetImageData
    \/ GetStrokes
    \/ GetImage

Spec == Init /\ [][Next]_vars

\* the decoder alone, drained by a consumer that only asks for the next record
NextDecode ==
    \/ ReadKeyId
    \/ ReadCountry
    \/ ReadRecognized
    \/ ReadTimestamp
    \/ ReadNStrokes
    \/ ReadNPoints
    \/ ReadX
    \/ ReadY
    \/ Yield

\* the consumer's for loop keeps asking until the generator ends
SpecLive == Init /\ [][NextDecode]_vars /\ WF_vars(NextDecode)

-----------------------------------------------------------------------------
(* What the input says the decoder should produce.                         *)

\* the frames of fr that lie entirely within the first n bytes
RECURSIVE CompleteFrames(_, _)
CompleteFrames(fr, n) ==
    IF fr = <<>> \/ Len(PackFrame(Head(fr))) > n THEN <<>>
    ELSE <<Head(fr)>> \o CompleteFrames(Tail(fr), n - Len(PackFrame(Head(fr))))

Expected == CompleteFrames(frames, Len(data))

\* where the k-th yielded frame started
StartOf(k) == IF k = 1 THEN 0 ELSE ends[k - 1]

\* the points of a frame's stroke s, from the frame as written
FramePoints(f, s) ==
    [j \in 1..Len(f.image[s][1]) |-> <<f.image[s][1][j], f.image[s][2][j]>>]

-----------------------------------------------------------------------------
(* C1: whatever the file holds, no error leaves unpack_drawings; the       *)
(* records yielded so far are the first complete frames of the file, in    *)
(* order, and when the stream has ended they are all the complete frames   *)
(* that precede the first short read.                                      *)
LenientTermination ==
    /\ pc # "Raised"
    /\ Len(out) <= Len(Expected)
    /\ \A k \in 1..Len(out) : out[k] = Expected[k]
    /\ pc = "StreamEnded" => out = Expected

\* a frame was yielded and the stream then ended on 1 to 7 trailing bytes
LenientTerminationWitness ==
    /\ pc = "StreamEnded"
    /\ Len(out) >= 1
    /\ Len(data) - ends[Len(out)] \in 1..7

(* C2: every yielded record has as many raw strokes as the frame's header  *)
(* declares, each stroke's x-array and y-array have the declared point     *)
(* count, and the strokes view lists for stroke s the points (x[j], y[j])  *)
(* in the original order, strokes in frame order.                          *)
StrokesFaithful ==
    /\ \A k \in 1..Len(out) :
        /\ Len(out[k].image) = UnpackH(SubSeq(data, StartOf(k) + 16, StartOf(k) + 17))
        /\ Len(out[k].image) = Len(frames[k].image)
        /\ \A s \in 1..Len(out[k].image) :
            /\ Len(out[k].image[s][1]) = Len(frames[k].image[s][1])
            /\ Len(out[k].image[s][2]) = Len(frames[k].image[s][1])
    /\ (qt # None /\ ret.call = "strokes") =>
        /\ ret.exc = "none"
        /\ Len(ret.val) = Len(frames[Len(out)].image)
        /\ \A s \in 1..Len(ret.val) : ret.val[s] = FramePoints(frames[Len(out)], s)

\* the strokes view of a second frame was read and a stroke of it has two points
StrokesFaithfulWitness ==
    /\ qt # None
    /\ ret.call = "strokes"
    /\ Len(out) = 2
    /\ \E s \in 1..Len(ret.val) : Len(ret.val[s]) = 2

\* the bytes a frame takes when each stroke costs perStroke bytes besides its points
FrameBytes(d, perStroke) ==
    17 + SumSeq([s \in 1..Len(d.image) |-> perStroke + 2 * Len(d.image[s][1])])

(* C3 as stated: a frame takes 17 bytes plus, for each stroke,             *)
(* 4 + 2 * point_count bytes.                                              *)
FrameBytesAsStated ==
    \A k \in 1..Len(out) : ends[k] - StartOf(k) = FrameBytes(out[k], 4)

(* C3 amended: a frame takes 17 bytes plus, for each stroke,               *)
(* 2 + 2 * point_count bytes; the reads return the file's bytes in order,  *)
(* none skipped and none twice, so the next frame starts where the last    *)
(* one ended.                                                              *)
FrameBytesExact ==
    /\ consumed = SubSeq(data, 1, pos)
    /\ pos <= Len(data)
    /\ \A k \in 1..Len(out) : ends[k] - StartOf(k) = FrameBytes(out[k], 2)

\* two frames were yielded and the second has a stroke with points
FrameBytesWitness ==
    /\ Len(out) = 2
    /\ Len(out[2].image) >= 1
    /\ Len(out[2].image[1][1]) >= 1

\* what each accessor should give for the frame f
FieldOf(name, f) ==
    CASE name = "key_id" -> f.key_id
      [] name = "countrycode" -> <<"str", f.country_code>>
      [] name = "recognized" -> (f.recognized # 0)
      [] name = "timestamp" -> f.timestamp
      [] name = "no_of_strokes" -> Len(f.image)
      [] name = "image_data" -> f.image

(* C4: on a record the decoder produced, each of key_id, countrycode,      *)
(* recognized, timestamp, no_of_strokes and image_data returns, without    *)
(* error, the value of the corresponding field of the frame.               *)
AccessorsReturnFields ==
    (qt # None /\ ret.call \in {"key_id", "countrycode", "recognized", "timestamp",
                                "no_of_strokes", "image_data"}) =>
        /\ ret.exc = "none"
        /\ ret.val = FieldOf(ret.call, frames[Len(out)])

(* C9: the stream ends: the generator reaches StreamEnded; it gets there   *)
(* only by a short read, which takes the rest of the file; every yielded   *)
(* frame moved the cursor by at least 17 bytes; and once ended nothing     *)
(* more is yielded or read.                                                *)
StreamEnds ==
    /\ <>(pc = "StreamEnded")
    /\ [](\A k \in 1..Len(out) : ends[k] - StartOf(k) >= 17)
    /\ [][(pc # "StreamEnded" /\ pc' = "StreamEnded") =>
            (pos' = Len(data) /\ out' = out)]_vars
    /\ [][pc = "StreamEnded" =>
            (pc' = "StreamEnded" /\ out' = out /\ pos' = pos)]_vars

\* the stream ended inside a stroke of the second frame
StreamEndsWitness ==
    /\ pc = "StreamEnded"
    /\ Len(out) = 1
    /\ Len(frames) = 2
    /\ Len(data) - ends[1] > 17

-----------------------------------------------------------------------------
(* A QuickDrawing built by any caller: the raw strokes need not have as    *)
(* many x's as y's.                                                        *)

\* a raw image whose stroke s has shape[s][1] x's and shape[s][2] y's
RawImage(shape) ==
    [s \in 1..Len(shape) |->
        << [j \in 1..shape[s][1] |-> XCoord(1, s, j)],
           [j \in 1..shape[s][2] |-> YCoord(1, s, j)] >>]

RawShapes == SeqsUpTo((0..MaxPoints) \X (0..MaxPoints), MaxStrokes)

RawRecord(shape) == [SampleFrame(1, <<>>) EXCEPT !.image = RawImage(shape)]

InitQD ==
    /\ \E shape \in RawShapes : qt = Some(QuickDrawing("airplane", RawRecord(shape)))
    /\ ret = NoCall
    /\ data = <<>>
    /\ frames = <<>>
    /\ pos = 0
    /\ consumed = <<>>
    /\ pc = "NoFile"
    /\ loc = NoLocals
    /\ out = <<>>
    /\ ends = <<>>
    /\ NoBatch

NextQD ==
    \/ GetKeyId
    \/ GetCountrycode
    \/ GetRecognized
    \/ GetTimestamp
    \/ GetNoOfStrokes
    \/ GetImageData
    \/ GetStrokes
    \/ GetImage

SpecQD == InitQD /\ [][NextQD]_vars

RawOf(q) == q._drawing_data.image

Mismatched(image) == \E s \in 1..Len(image) : Len(image[s][1]) # Len(image[s][2])

(* C8: when a raw stroke has x's and y's of different lengths, every       *)
(* access to strokes, and so every get_image, fails with the               *)
(* length-mismatch error, and the memoized view is unset or holds a point  *)
(* list for every raw stroke.                                              *)
MismatchAlwaysFails ==
    (qt # None /\ Mismatched(RawOf(qt[1]))) =>
        /\ ret.call \in {"strokes", "get_image"} => ret.exc = "Exception"
        /\ \/ qt[1]._strokes = None
           \/ Len(qt[1]._strokes[1]) = Len(RawOf(qt[1]))

\* the segments a canvas got: line call s joins its points j and j + 1
Segments(img) ==
    {<<s, j>> \in (1..Len(img.lines)) \X (1..MaxPoints + 1) : j < Len(img.lines[s].xy)}

(* C10: get_image returns a 255 x 255 canvas of the background colour on   *)
(* which it made one line call per stroke, in stroke order, each with that *)
(* stroke's points and nothing else; when every stroke has at most one     *)
(* point no segment is drawn, so every pixel is the background colour.     *)
RenderSegments ==
    (qt # None /\ ret.call = "get_image" /\ ~Mismatched(RawOf(qt[1]))) =>
        /\ ret.exc = "none"
        /\ ret.val.size = <<255, 255>>
        /\ ret.val.color = ret.arg
        /\ Len(ret.val.lines) = Len(RawOf(qt[1]))
        /\ \A s \in 1..Len(ret.val.lines) :
            /\ ret.val.lines[s].xy = FramePoints(qt[1]._drawing_data, s)
            /\ ret.val.lines[s].fill = Black
            /\ ret.val.lines[s].width = 2
        /\ (\A s \in 1..Len(RawOf(qt[1])) : Len(RawOf(qt[1])[s][1]) <= 1)
            => Segments(ret.val) = {}

\* a record of two strokes, one of a single point and one of none, was rendered
RenderSegmentsWitness ==
    /\ qt # None
    /\ ret.call = "get_image"
    /\ ret.exc = "none"
    /\ Len(RawOf(qt[1])) = 2
    /\ ~Mismatched(RawOf(qt[1]))
    /\ \E s, t \in 1..2 : Len(RawOf(qt[1])[s][1]) = 1 /\ Len(RawOf(qt[1])[t][1]) = 0

-----------------------------------------------------------------------------
(* save_png and the pool. A path is a sequence of tokens, "/" and ".bin"   *)
(* being tokens; an input file is its path and the number of records its   *)
(* stream yields.                                                          *)

Cap == 5000

selected_classes ==
    { <<"airplane">>, <<"bus">>, <<"car">>, <<"fish">>, <<"guitar">>, <<"laptop">>,
      <<"pizza">>, <<"sea turtle">>, <<"star">>, <<"t-shirt">>, <<"The Eiffel Tower">>,
      <<"yoga">> }

datasetdir == <<"train">>

\* os.path.join(datasetdir, class_name)
ClassDir(class_name) == datasetdir \o <<"/">> \o class_name

\* str.rindex: the last place of the token, 0 when there is none (ValueError)
RIndex(path, tok) ==
    LET at == {n \in 1..Len(path) : path[n] = tok}
    IN  IF at = {} THEN 0 ELSE CHOOSE n \in at : \A m \in at : m <= n

\* binfile[binfile.rindex('/') + 1 : binfile.rindex(".bin")]
ClassName(binfile) ==
    IF RIndex(binfile, "/") = 0 \/ RIndex(binfile, ".bin") = 0
    THEN [exc |-> "ValueError", val |-> <<>>]
    ELSE [exc |-> "none",
          val |-> SubSeq(binfile, RIndex(binfile, "/") + 1, RIndex(binfile, ".bin") - 1)]

\* the state of a save_png call that has not started
Worker(files) ==
    [files |-> files, pc |-> "CheckDataset", k |-> 0, class_name |-> <<>>,
     index |-> 0, yielded |-> 0, requests |-> 0, saved |-> 0,
     processed |-> {}, exc |-> "none"]

\* an exception leaves save_png: the task is over
Fails(w, exc) == pool' = [pool EXCEPT ![w].pc = "failed", ![w].exc = exc]

\* if not os.path.exists(datasetdir):
CheckDataset(w) ==
    /\ pool[w].pc = "CheckDataset"
    /\ pool' = [pool EXCEPT ![w].pc =
                    IF datasetdir \in fs THEN "NextFile" ELSE "MkdirDataset"]
    /\ UNCHANGED <<fs, pngs, decoderVars, qt, ret>>

\* os.mkdir(datasetdir)
MkdirDataset(w) ==
    /\ pool[w].pc = "MkdirDataset"
    /\ IF datasetdir \in fs
       THEN Fails(w, "FileExistsError") /\ fs' = fs
       ELSE /\ fs' = fs \cup {datasetdir}
            /\ pool' = [pool EXCEPT ![w].pc = "NextFile"]
    /\ UNCHANGED <<pngs, decoderVars, qt, ret>>

\* for binfile in tqdm(bin_fileslist): the class name, and the allow-list test
NextFile(w) ==
    /\ pool[w].pc = "NextFile"
    /\ IF pool[w].k = Len(pool[w].files)
       THEN pool' = [pool EXCEPT ![w].pc = "done"]
       ELSE LET k == pool[w].k + 1
                cn == ClassName(pool[w].files[k].name)
            IN  IF cn.exc # "none"
                THEN pool' = [pool EXCEPT ![w].pc = "failed", ![w].exc = cn.exc, ![w].k = k]
                ELSE IF cn.val \notin selected_classes
                THEN pool' = [pool EXCEPT ![w].k = k, ![w].class_name = cn.val,
                                          ![w].processed = @ \cup {k}]
                ELSE pool' = [pool EXCEPT ![w].k = k, ![w].class_name = cn.val,
                                          ![w].pc = "CheckClassDir"]
    /\ UNCHANGED <<fs, pngs, decoderVars, qt, ret>>

\* if not os.path.exists(class_dir): ... else index = 0 and the stream is opened
CheckClassDir(w) ==
    /\ pool[w].pc = "CheckClassDir"
    /\ pool' = [pool EXCEPT
                 ![w].pc = IF ClassDir(pool[w].class_name) \in fs THEN "Fetch"
                           ELSE "MkdirClass",
                 ![w].index = 0, ![w].yielded = 0, ![w].requests = 0, ![w].saved = 0]
    /\ UNCHANGED <<fs, pngs, decoderVars, qt, ret>>

\* os.mkdir(class_dir)
MkdirClass(w) ==
    /\ pool[w].pc = "MkdirClass"
    /\ IF ClassDir(pool[w].class_name) \in fs
       THEN Fails(w, "FileExistsError") /\ fs' = fs
       ELSE /\ fs' = fs \cup {ClassDir(pool[w].class_name)}
            /\ pool' = [pool EXCEPT ![w].pc = "Fetch"]
    /\ UNCHANGED <<pngs, decoderVars, qt, ret>>

\* for index, drawing in enumerate(unpack_drawings(binfile)): the next record is
\* asked of the generator; it yields one or the stream has ended
Fetch(w) ==
    /\ pool[w].pc = "Fetch"
    /\ IF pool[w].yielded < pool[w].files[pool[w].k].nrecords
       THEN pool' = [pool EXCEPT ![w].requests = @ + 1, ![w].index = pool[w].yielded,
                                 ![w].yielded = @ + 1, ![w].pc = "Body"]
       ELSE pool' = [pool EXCEPT ![w].requests = @ + 1, ![w].pc = "NextFile",
                                 ![w].processed = @ \cup {pool[w].k}]
    /\ UNCHANGED <<fs, pngs, decoderVars, qt, ret>>

\* qt = QuickDrawing(...); image = qt.get_image(); image.save(.../<index>.png);
\* if index >= 5000: break
Body(w) ==
    /\ pool[w].pc = "Body"
    /\ pngs' = [pngs EXCEPT ![pool[w].class_name] = Max(@, pool[w].index + 1)]
    /\ IF pool[w].index >= Cap
       THEN pool' = [pool EXCEPT ![w].saved = @ + 1, ![w].pc = "NextFile",
                                 ![w].processed = @ \cup {pool[w].k}]
       ELSE pool' = [pool EXCEPT ![w].saved = @ + 1, ![w].pc = "Fetch"]
    /\ UNCHANGED <<fs, decoderVars, qt, ret>>

NextBatch ==
    \/ \E w \in DOMAIN pool : CheckDataset(w)
    \/ \E w \in DOMAIN pool : MkdirDataset(w)
    \/ \E w \in DOMAIN pool : NextFile(w)
    \/ \E w \in DOMAIN pool : CheckClassDir(w)
    \/ \E w \in DOMAIN pool : MkdirClass(w)
    \/ \E w \in DOMAIN pool : Fetch(w)
    \/ \E w \in DOMAIN pool : Body(w)

NoDecoder ==
    /\ data = <<>>
    /\ frames = <<>>
    /\ pos = 0
    /\ consumed = <<>>
    /\ pc = "NoFile"
    /\ loc = NoLocals
    /\ out = <<>>
    /\ ends = <<>>
    /\ qt = None
    /\ ret = NoCall

F_airplane == <<"data", "/", "airplane", ".bin">>
F_airplane_sub == <<"data", "/", "more", "/", "airplane", ".bin">>
F_bus == <<"data", "/", "bus", ".bin">>
F_cat == <<"data", "/", "cat", ".bin">>
F_readme == <<"data", "/", "README", ".md">>

-----------------------------------------------------------------------------
(* One save_png call over streams around the cap.                          *)

Beyond == 2

CapCounts == {0, 1, Cap - 1, Cap, Cap + 1, Cap + Beyond}

CapLists ==
    {<< [name |-> F_airplane, nrecords |-> n] >> : n \in CapCounts}
    \cup {<< [name |-> F_cat, nrecords |-> 1], [name |-> F_bus, nrecords |-> n] >> :
            n \in {1, Cap + 1}}
    \cup {<< [name |-> F_readme, nrecords |-> 0] >>}

InitCap ==
    /\ \E files \in CapLists : pool = [w \in {1} |-> Worker(files)]
    /\ fs \in {{}, {datasetdir}, {datasetdir, ClassDir(<<"airplane">>)}}
    /\ pngs = [c \in selected_classes |-> 0]
    /\ NoDecoder

SpecCap == InitCap /\ [][NextBatch]_vars

(* C5: save_png saves at most N = 5000 images for one class file, asks the *)
(* decoder for no frame once N records were emitted, and processes a       *)
(* stream of fewer than N frames in full.                                  *)
CapHonoured ==
    \A w \in DOMAIN pool :
        /\ pool[w].saved <= Cap
        /\ pool[w].saved >= Cap => pool[w].requests <= Cap
        /\ (pool[w].k \in pool[w].processed /\ pool[w].class_name \in selected_classes
            /\ pool[w].files[pool[w].k].nrecords < Cap)
                => pool[w].saved = pool[w].files[pool[w].k].nrecords

-----------------------------------------------------------------------------
(* The pool: every worker runs save_png on its own part of the file list.  *)

\* the worker processes of the model (the script starts 8) and the longest file list
NWorkers == 2
MaxFiles == 4

PoolFiles ==
    { [name |-> F_airplane, nrecords |-> 2],
      [name |-> F_airplane_sub, nrecords |-> 1],
      [name |-> F_bus, nrecords |-> 1],
      [name |-> F_cat, nrecords |-> 1],
      [name |-> F_readme, nrecords |-> 0] }

\* load_bin_files: the files under data, each once, in the order os.walk gives
FileLists ==
    {l \in SeqsUpTo(PoolFiles, MaxFiles) : \A m, n \in 1..Len(l) : l[m] = l[n] => m = n}

\* np.array_split(list, parts)[w]: consecutive parts, the first len % parts of them
\* one longer
ArraySplit(list, parts, w) ==
    LET q == Len(list) \div parts
        r == Len(list) % parts
        first == (w - 1) * q + Min(w - 1, r)
        size == q + (IF w <= r THEN 1 ELSE 0)
    IN  SubSeq(list, first + 1, first + size)

InitPool ==
    /\ \E list \in FileLists :
        pool = [w \in 1..NWorkers |-> Worker(ArraySplit(list, NWorkers, w))]
    /\ fs \in {{}, {datasetdir}}
    /\ pngs = [c \in selected_classes |-> 0]
    /\ NoDecoder

SpecPool == InitPool /\ [][NextBatch]_vars

(* C6: workers share no mutable state: no worker fails because of what     *)
(* another worker did, so none fails on a mkdir of a directory that it     *)
(* had just found missing.                                                 *)
WorkersIndependent ==
    \A w \in DOMAIN pool : pool[w].exc # "FileExistsError"

(* C7: a failure while processing one input file is local to that file:    *)
(* the worker it happened in has, when its task is over, processed every   *)
(* other file of its list, and so has every other worker.                  *)
FailureIsolated ==
    \A w \in DOMAIN pool :
        /\ (pool[w].pc = "failed" /\ pool[w].k >= 1) =>
            \A j \in 1..Len(pool[w].files) : j # pool[w].k => j \in pool[w].processed
        /\ pool[w].pc = "done" =>
            \A j \in 1..Len(pool[w].files) : j \in pool[w].processed

====
